---- MODULE Spec2Model ----
(***************************************************************************)
(* Model of anstyle-html: Term::render_html (src/src/lib.rs) and the       *)
(* to_html command (src/src/bin/to_html.rs).                               *)
(*                                                                         *)
(* Strings are sequences of one-character strings, so that splitting,      *)
(* escaping, formatting and lexicographic ordering are computed and not    *)
(* assumed.  "W" stands for one wide (two-column) character such as        *)
(* U+4E16; every other letter is one column wide.                          *)
(*                                                                         *)
(* The element extractor (mod adapter) and the palette lookup are          *)
(* collaborators whose code is outside src/; the extractor's result is the *)
(* input of the rendering pipeline, and a resolved RGB value is kept as    *)
(* "the palette's answer for this color".  The settings `background`,      *)
(* `font_family`, `min_width_px` and `palette` only change fixed text of   *)
(* the document and are left out.                                          *)
(***************************************************************************)
EXTENDS Naturals, Sequences, FiniteSets, TLC

LF == "\n"
CR == "\r"

\* ------------------------------------------------------------------------
\* Bounds of the explored inputs
\* ------------------------------------------------------------------------
MaxElems == 2      \* extracted elements per document
MaxChars == 3      \* characters of text per document

\* ------------------------------------------------------------------------
\* Colors, effects, styles (anstyle)
\* ------------------------------------------------------------------------
NoColor == <<"None", 0, 0, 0>>
Ansi(i) == <<"Ansi", i, 0, 0>>
Ansi256(i) == <<"Ansi256", i, 0, 0>>
Rgb(r, g, b) == <<"Rgb", r, g, b>>
IsSome(c) == c[1] # "None"
UnwrapOr(c, d) == IF IsSome(c) THEN c ELSE d

RenderedEffects ==
    {"BOLD", "ITALIC", "UNDERLINE", "DOUBLE_UNDERLINE", "CURLY_UNDERLINE",
     "DOTTED_UNDERLINE", "DASHED_UNDERLINE", "STRIKETHROUGH", "DIMMED",
     "HIDDEN"}
Effects == RenderedEffects \cup {"INVERT"}

Style(f, b, u, e) == [fg |-> f, bg |-> b, underline |-> u, effects |-> e]
Element(s, t, h) == [style |-> s, text |-> t, url |-> h]
NoUrl == <<>>

FG_COLOR == Ansi(7)
BG_COLOR == Ansi(0)
Term_new == [fg_color |-> FG_COLOR, bg_color |-> BG_COLOR]

\* ------------------------------------------------------------------------
\* Character sequences
\* ------------------------------------------------------------------------
RECURSIVE Repeat(_, _)
Repeat(s, n) == IF n = 0 THEN <<>> ELSE s \o Repeat(s, n - 1)

StartsWith(s, p) == Len(s) >= Len(p) /\ SubSeq(s, 1, Len(p)) = p

AsciiOrder ==
    <<"-", "0", "1", "2", "3", "4", "5", "6", "7", "8", "9", "A", "B", "C",
      "D", "E", "F", "a", "b", "c", "d", "e", "f", "g", "h", "i", "j", "k",
      "l", "m", "n", "o", "p", "q", "r", "s", "t", "u", "v", "w", "x", "y",
      "z">>
Ord(c) == CHOOSE i \in 1..Len(AsciiOrder) : AsciiOrder[i] = c

\* str's Ord: byte-wise lexicographic comparison
RECURSIVE StrLess(_, _)
StrLess(a, b) ==
    IF b = <<>> THEN FALSE
    ELSE IF a = <<>> THEN TRUE
    ELSE IF Head(a) = Head(b) THEN StrLess(Tail(a), Tail(b))
    ELSE Ord(Head(a)) < Ord(Head(b))

\* html_escape::encode_text: escapes '&', '<' and '>'
EscapeChar(c) ==
    IF c = "&" THEN <<"&", "a", "m", "p", ";">>
    ELSE IF c = "<" THEN <<"&", "l", "t", ";">>
    ELSE IF c = ">" THEN <<"&", "g", "t", ";">>
    ELSE <<c>>
RECURSIVE encode_text(_)
encode_text(s) ==
    IF s = <<>> THEN <<>> ELSE EscapeChar(Head(s)) \o encode_text(Tail(s))

\* unicode_width::UnicodeWidthStr::width: columns of a string
CharWidth(c) == IF c = "W" THEN 2 ELSE IF c \in {CR, LF} THEN 0 ELSE 1
RECURSIVE width(_)
width(s) == IF s = <<>> THEN 0 ELSE CharWidth(Head(s)) + width(Tail(s))

\* str::split_once('\n'): position of the first '\n', 0 when there is none
RECURSIVE FindLF(_, _)
FindLF(s, i) ==
    IF i > Len(s) THEN 0 ELSE IF s[i] = LF THEN i ELSE FindLF(s, i + 1)

\* str::strip_suffix('\r').unwrap_or(s)
strip_suffix_cr(s) ==
    IF s # <<>> /\ s[Len(s)] = CR THEN SubSeq(s, 1, Len(s) - 1) ELSE s

\* ------------------------------------------------------------------------
\* Class names and the color registry
\* ------------------------------------------------------------------------
ANSI_NAMES ==
    << <<"b", "l", "a", "c", "k">>,
       <<"r", "e", "d">>,
       <<"g", "r", "e", "e", "n">>,
       <<"y", "e", "l", "l", "o", "w">>,
       <<"b", "l", "u", "e">>,
       <<"m", "a", "g", "e", "n", "t", "a">>,
       <<"c", "y", "a", "n">>,
       <<"w", "h", "i", "t", "e">>,
       <<"b", "r", "i", "g", "h", "t", "-", "b", "l", "a", "c", "k">>,
       <<"b", "r", "i", "g", "h", "t", "-", "r", "e", "d">>,
       <<"b", "r", "i", "g", "h", "t", "-", "g", "r", "e", "e", "n">>,
       <<"b", "r", "i", "g", "h", "t", "-", "y", "e", "l", "l", "o", "w">>,
       <<"b", "r", "i", "g", "h", "t", "-", "b", "l", "u", "e">>,
       <<"b", "r", "i", "g", "h", "t", "-", "m", "a", "g", "e", "n", "t", "a">>,
       <<"b", "r", "i", "g", "h", "t", "-", "c", "y", "a", "n">>,
       <<"b", "r", "i", "g", "h", "t", "-", "w", "h", "i", "t", "e">> >>

FG_PREFIX == <<"f", "g">>
BG_PREFIX == <<"b", "g">>
UNDERLINE_PREFIX == <<"u", "n", "d", "e", "r", "l", "i", "n", "e">>

Digits == <<"0", "1", "2", "3", "4", "5", "6", "7", "8", "9", "A", "B", "C",
            "D", "E", "F">>
\* {:03} of a u8
Dec3(n) == <<Digits[(n \div 100) + 1], Digits[((n \div 10) % 10) + 1],
             Digits[(n % 10) + 1]>>
\* {:02X} of a u8
Hex2(n) == <<Digits[(n \div 16) + 1], Digits[(n % 16) + 1]>>

\* the palette's RGB for a color, written #RRGGBB; the lookup is the
\* palette's, so the value is kept as "the RGB of this color"
rgb_value(color) == [of |-> color]

color_name(prefix, color) ==
    IF color[1] = "Ansi"
    THEN prefix \o <<"-">> \o ANSI_NAMES[color[2] + 1]
    ELSE IF color[1] = "Ansi256"
    THEN prefix \o <<"-", "a", "n", "s", "i", "2", "5", "6", "-">>
                \o Dec3(color[2])
    ELSE prefix \o <<"-", "r", "g", "b", "-">>
                \o Hex2(color[2]) \o Hex2(color[3]) \o Hex2(color[4])

\* a map that keeps its entries in the order of their first insertion
VecInsert(map, k, v) ==
    IF \E i \in DOMAIN map : map[i][1] = k
    THEN [i \in DOMAIN map |-> IF map[i][1] = k THEN <<k, v>> ELSE map[i]]
    ELSE Append(map, <<k, v>>)

\* BTreeMap<String, String>::insert on the map's entries in key order
RECURSIVE BTreeInsert(_, _, _)
BTreeInsert(map, k, v) ==
    IF map = <<>> THEN << <<k, v>> >>
    ELSE IF Head(map)[1] = k THEN << <<k, v>> >> \o Tail(map)
    ELSE IF StrLess(k, Head(map)[1]) THEN << <<k, v>> >> \o map
    ELSE <<Head(map)>> \o BTreeInsert(Tail(map), k, v)

InsertColor(colors, prefix, color) ==
    IF IsSome(color)
    THEN BTreeInsert(colors, color_name(prefix, color), rgb_value(color))
    ELSE colors

\* a registry that leaves the background colors out
RECURSIVE color_styles_no_bg(_, _)
color_styles_no_bg(styled, colors) ==
    IF styled = <<>> THEN colors
    ELSE LET style == Head(styled).style
             c1 == InsertColor(colors, FG_PREFIX, style.fg)
             c3 == InsertColor(c1, UNDERLINE_PREFIX, style.underline)
         IN  color_styles_no_bg(Tail(styled), c3)

RECURSIVE color_styles_from(_, _)
color_styles_from(styled, colors) ==
    IF styled = <<>> THEN colors
    ELSE LET style == Head(styled).style
             c1 == InsertColor(colors, FG_PREFIX, style.fg)
             c2 == InsertColor(c1, BG_PREFIX, style.bg)
             c3 == InsertColor(c2, UNDERLINE_PREFIX, style.underline)
         IN  color_styles_from(Tail(styled), c3)

color_styles(styled) == color_styles_from(styled, <<>>)

\* ------------------------------------------------------------------------
\* Style normalizer (render_html, the loop over the extracted elements)
\* ------------------------------------------------------------------------
\* an INVERT branch that sets fg first and reads it back for bg
ResolveInvertInPlace(style, term) ==
    IF "INVERT" \in style.effects
    THEN LET s1 == [style EXCEPT !.fg = UnwrapOr(style.bg, term.bg_color)]
         IN  [s1 EXCEPT !.bg = UnwrapOr(s1.fg, term.fg_color),
                        !.effects = style.effects \ {"INVERT"}]
    ELSE style

\* the INVERT branch: fg and bg are both read from the old style
ResolveInvert(style, term) ==
    IF "INVERT" \in style.effects
    THEN [style EXCEPT !.fg = UnwrapOr(style.bg, term.bg_color),
                       !.bg = UnwrapOr(style.fg, term.fg_color),
                       !.effects = style.effects \ {"INVERT"}]
    ELSE style

NormalizeAll(els, term) ==
    [i \in DOMAIN els |->
        [els[i] EXCEPT !.style = ResolveInvert(els[i].style, term)]]

EffectsUnion(els) == UNION {els[i].style.effects : i \in DOMAIN els}

\* ------------------------------------------------------------------------
\* Line splitter
\* ------------------------------------------------------------------------
\* the `while let Some((current, remaining))` loop for one element, then
\* the push of what is left of it; the result is <<lines, current_line>>
RECURSIVE SplitElement(_, _, _)
SplitElement(element, lines, current_line) ==
    LET i == FindLF(element.text, 1) IN
    IF i = 0
    THEN <<lines, Append(current_line, element)>>
    ELSE LET current == strip_suffix_cr(SubSeq(element.text, 1, i - 1))
             remaining == SubSeq(element.text, i + 1, Len(element.text))
             new_element == [element EXCEPT !.text = current]
         IN  SplitElement([element EXCEPT !.text = remaining],
                          Append(lines, Append(current_line, new_element)),
                          <<>>)

RECURSIVE SplitFrom(_, _, _)
SplitFrom(styled, lines, current_line) ==
    IF styled = <<>>
    THEN IF current_line # <<>> THEN Append(lines, current_line) ELSE lines
    ELSE LET r == SplitElement(Head(styled), lines, current_line)
         IN  SplitFrom(Tail(styled), r[1], r[2])

split_lines(styled) == SplitFrom(styled, <<>>, <<>>)

\* ------------------------------------------------------------------------
\* HTML renderer
\* ------------------------------------------------------------------------
Rule(name, decl, value) == [class |-> name, decl |-> decl, rgb |-> value]
NoValue == rgb_value(NoColor)

\* the three `if name.starts_with(..)` of the registry loop, for one entry
ColorRule(entry) ==
    (IF StartsWith(entry[1], FG_PREFIX)
        THEN <<Rule(entry[1], "color", entry[2])>> ELSE <<>>)
    \o (IF StartsWith(entry[1], BG_PREFIX)
        THEN <<Rule(entry[1], "background", entry[2])>> ELSE <<>>)
    \o (IF StartsWith(entry[1], UNDERLINE_PREFIX)
        THEN <<Rule(entry[1], "text-decoration-color", entry[2])>> ELSE <<>>)

RECURSIVE ColorRules(_)
ColorRules(entries) ==
    IF entries = <<>> THEN <<>>
    ELSE ColorRule(Head(entries)) \o ColorRules(Tail(entries))

BoldClass == <<"b", "o", "l", "d">>
ItalicClass == <<"i", "t", "a", "l", "i", "c">>
UnderlineClass == <<"u", "n", "d", "e", "r", "l", "i", "n", "e">>
DoubleUnderlineClass ==
    <<"d", "o", "u", "b", "l", "e", "-", "u", "n", "d", "e", "r", "l", "i",
      "n", "e">>
CurlyUnderlineClass ==
    <<"c", "u", "r", "l", "y", "-", "u", "n", "d", "e", "r", "l", "i", "n",
      "e">>
DottedUnderlineClass ==
    <<"d", "o", "t", "t", "e", "d", "-", "u", "n", "d", "e", "r", "l", "i",
      "n", "e">>
DashedUnderlineClass ==
    <<"d", "a", "s", "h", "e", "d", "-", "u", "n", "d", "e", "r", "l", "i",
      "n", "e">>
StrikethroughClass ==
    <<"s", "t", "r", "i", "k", "e", "t", "h", "r", "o", "u", "g", "h">>
DimmedClass == <<"d", "i", "m", "m", "e", "d">>
HiddenClass == <<"h", "i", "d", "d", "e", "n">>
ContainerClass == <<"c", "o", "n", "t", "a", "i", "n", "e", "r">>

\* the effect rules of the <style> block, in the order they are written
HeadEffects ==
    << <<"BOLD", BoldClass>>, <<"ITALIC", ItalicClass>>,
       <<"UNDERLINE", UnderlineClass>>,
       <<"DOUBLE_UNDERLINE", DoubleUnderlineClass>>,
       <<"CURLY_UNDERLINE", CurlyUnderlineClass>>,
       <<"DOTTED_UNDERLINE", DottedUnderlineClass>>,
       <<"DASHED_UNDERLINE", DashedUnderlineClass>>,
       <<"STRIKETHROUGH", StrikethroughClass>>,
       <<"DIMMED", DimmedClass>>, <<"HIDDEN", HiddenClass>> >>

\* the effect classes of a foreground span, in the order they are pushed
SpanEffects ==
    << <<"UNDERLINE", UnderlineClass>>,
       <<"DOUBLE_UNDERLINE", DoubleUnderlineClass>>,
       <<"CURLY_UNDERLINE", CurlyUnderlineClass>>,
       <<"DOTTED_UNDERLINE", DottedUnderlineClass>>,
       <<"DASHED_UNDERLINE", DashedUnderlineClass>>,
       <<"STRIKETHROUGH", StrikethroughClass>>,
       <<"BOLD", BoldClass>>, <<"ITALIC", ItalicClass>>,
       <<"DIMMED", DimmedClass>>, <<"HIDDEN", HiddenClass>> >>

RECURSIVE EffectClasses(_, _)
EffectClasses(table, effects) ==
    IF table = <<>> THEN <<>>
    ELSE (IF Head(table)[1] \in effects THEN <<Head(table)[2]>> ELSE <<>>)
         \o EffectClasses(Tail(table), effects)

RECURSIVE EffectRules(_)
EffectRules(classes) ==
    IF classes = <<>> THEN <<>>
    ELSE <<Rule(Head(classes), "effect", NoValue)>>
         \o EffectRules(Tail(classes))

\* the <style> block: .fg, .bg, the registry, .container, the effects, span
StyleBlock(term, els, in_use) ==
    <<Rule(FG_PREFIX, "color", rgb_value(term.fg_color)),
      Rule(BG_PREFIX, "background", rgb_value(term.bg_color))>>
    \o ColorRules(color_styles(els))
    \o <<Rule(ContainerClass, "layout", NoValue)>>
    \o EffectRules(EffectClasses(HeadEffects, in_use))
    \o <<Rule(<<>>, "span", NoValue)>>

Span(classes, href, text) == [classes |-> classes, href |-> href, text |-> text]

\* a foreground span that writes the fragment as it is
write_fg_span_raw(element, fragment) ==
    LET style == element.style IN
    Span((IF IsSome(style.fg)
             THEN <<color_name(FG_PREFIX, style.fg)>> ELSE <<>>)
         \o (IF IsSome(style.underline)
             THEN <<color_name(UNDERLINE_PREFIX, style.underline)>>
             ELSE <<>>)
         \o EffectClasses(SpanEffects, style.effects),
         element.url,
         fragment)

write_fg_span(element, fragment) ==
    LET style == element.style IN
    Span((IF IsSome(style.fg)
             THEN <<color_name(FG_PREFIX, style.fg)>> ELSE <<>>)
         \o (IF IsSome(style.underline)
             THEN <<color_name(UNDERLINE_PREFIX, style.underline)>>
             ELSE <<>>)
         \o EffectClasses(SpanEffects, style.effects),
         element.url,
         encode_text(fragment))

\* "#" stands for the full block U+2588
write_bg_span(style, fragment) ==
    LET fill == IF IsSome(style.bg) THEN "#" ELSE " " IN
    Span(IF IsSome(style.bg)
            THEN <<color_name(BG_PREFIX, style.bg)>> ELSE <<>>,
         NoUrl,
         Repeat(<<fill>>, width(encode_text(fragment))))

RECURSIVE BgSpans(_)
BgSpans(line) ==
    IF line = <<>> THEN <<>>
    ELSE (IF Head(line).text = <<>> THEN <<>>
          ELSE <<write_bg_span(Head(line).style, Head(line).text)>>)
         \o BgSpans(Tail(line))

RECURSIVE FgSpans(_)
FgSpans(line) ==
    IF line = <<>> THEN <<>>
    ELSE (IF Head(line).text = <<>> THEN <<>>
          ELSE <<write_fg_span(Head(line), Head(line).text)>>)
         \o FgSpans(Tail(line))

Row(overlay, n, spans) ==
    [overlay |-> overlay, line |-> n, spans |-> spans, br |-> TRUE]

\* an iteration that looks for a background among the elements with text
RenderLineVisible(line, n) ==
    (IF \E i \in DOMAIN line :
            line[i].text # <<>> /\ IsSome(line[i].style.bg)
        THEN <<Row(TRUE, n, BgSpans(line))>> ELSE <<>>)
    \o <<Row(FALSE, n, FgSpans(line))>>

\* one iteration of `for line in &styled_lines`
RenderLine(line, n) ==
    (IF \E i \in DOMAIN line : IsSome(line[i].style.bg)
        THEN <<Row(TRUE, n, BgSpans(line))>> ELSE <<>>)
    \o <<Row(FALSE, n, FgSpans(line))>>

RECURSIVE RenderLines(_, _)
RenderLines(lines, n) ==
    IF n > Len(lines) THEN <<>>
    ELSE RenderLine(lines[n], n) \o RenderLines(lines, n + 1)

\* ------------------------------------------------------------------------
\* The element extractor on text without escape sequences: the text is
\* one run of the default style, and no text is no run
\* ------------------------------------------------------------------------
DefaultStyle == Style(NoColor, NoColor, NoColor, {})
extract_next(bytes) ==
    IF bytes = <<>> THEN <<>> ELSE <<Element(DefaultStyle, bytes, NoUrl)>>

\* ------------------------------------------------------------------------
\* State
\* ------------------------------------------------------------------------
VARIABLES
    term,            \* the Term the document is rendered with
    elements,        \* render_html: `elements`
    effects_in_use,  \* render_html: `effects_in_use`
    styled_lines,    \* render_html: `styled_lines`
    head,            \* the rules written to <style>, in order
    body,            \* the rows written to the container, in order
    pc,              \* position in render_html
    cli,             \* position in to_html's main ("lib": called as a library)
    input_file,      \* <<FALSE, <<>>>> when unreadable, else <<TRUE, text>>
    vte,             \* main: `vte`
    output_file,     \* what the output path holds
    exit_code        \* status of the to_html process

vars == <<term, elements, effects_in_use, styled_lines, head, body, pc, cli,
          input_file, vte, output_file, exit_code>>
render_vars == <<term, elements, effects_in_use, styled_lines, head, body, pc>>
cli_vars == <<cli, input_file, vte, output_file, exit_code>>

\* ------------------------------------------------------------------------
\* Inputs
\* ------------------------------------------------------------------------
Alphabet == {"a", "<", "W", CR, LF}
TextsOver(alphabet, n) == UNION {[1..k -> alphabet] : k \in 0..n}
TextsUpTo(n) == TextsOver(Alphabet, n)

\* sequences of exactly n elements, of the given kinds <<style, url>> and
\* texts, with at most `budget` characters in all
RECURSIVE Documents(_, _, _, _)
Documents(n, budget, kinds, texts) ==
    IF n = 0 THEN {<<>>}
    ELSE UNION {
           {<<Element(k[1], t, k[2])>> \o rest :
               rest \in Documents(n - 1, budget - Len(t), kinds, texts)} :
           k \in kinds, t \in {x \in texts : Len(x) <= budget} }

DocumentsUpTo(kinds, texts) ==
    UNION {Documents(n, MaxChars, kinds, texts) : n \in 0..MaxElems}

Term_custom == [fg_color |-> Rgb(255, 255, 255), bg_color |-> Ansi256(1)]
Link == <<"https://example.com">>

InvertOnly == Style(NoColor, NoColor, NoColor, {"INVERT"})

TextKinds ==
    { <<DefaultStyle, NoUrl>>,
      <<InvertOnly, NoUrl>>,
      <<Style(Ansi(1), NoColor, NoColor, {}), NoUrl>>,
      <<Style(NoColor, Ansi256(1), Rgb(255, 0, 0), {"BOLD"}), Link>> }

PlainKinds == {<<DefaultStyle, NoUrl>>}

RowKinds ==
    { <<DefaultStyle, NoUrl>>,
      <<Style(NoColor, Ansi(1), NoColor, {}), NoUrl>> }
RowTexts == TextsOver({"a", "<", LF}, MaxChars)

ClassKinds ==
    { <<DefaultStyle, NoUrl>>,
      <<InvertOnly, NoUrl>>,
      <<Style(Ansi(1), Ansi256(1), Rgb(255, 0, 0), {"BOLD"}), Link>> }
ClassTexts == TextsOver({"a", LF}, MaxChars)

EffectKinds ==
    {<<Style(NoColor, NoColor, NoColor, {e}), NoUrl>> : e \in Effects}
    \cup {<<DefaultStyle, NoUrl>>}
EffectTexts == {<<>>, <<"a">>, <<LF>>}

InvertKinds ==
    {<<Style(f, b, u, e), NoUrl>> :
        f \in {NoColor, Ansi(1)},
        b \in {NoColor, Ansi256(1)},
        u \in {NoColor, Rgb(255, 0, 0)},
        e \in {{}, {"INVERT"}, {"INVERT", "BOLD"}}}

ColorKinds ==
    {<<Style(f, b, u, e), NoUrl>> :
        f \in {NoColor, Ansi(1)},
        b \in {NoColor, Ansi(1), Ansi256(1)},
        u \in {NoColor, Rgb(255, 0, 0)},
        e \in {{}, {"INVERT"}}}
ColorTexts == {<<"a">>}

LibraryCall ==
    /\ effects_in_use = {}
    /\ styled_lines = <<>>
    /\ head = <<>>
    /\ body = <<>>
    /\ pc = "extracted"
    /\ cli = "lib"
    /\ input_file = <<FALSE, <<>>>>
    /\ vte = <<>>
    /\ output_file = [state |-> "absent", written |-> 0]
    /\ exit_code = 0

\* a run ends where the style or the hyperlink changes
MaximalRuns(els) ==
    \A i \in DOMAIN els :
        i > 1 => els[i].style # els[i - 1].style \/ els[i].url # els[i - 1].url

\* render_html entered with the elements of a styled text: maximal runs,
\* each with some text
Init ==
    /\ term \in {Term_new, Term_custom}
    /\ elements \in DocumentsUpTo(TextKinds, TextsUpTo(MaxChars) \ {<<>>})
    /\ MaximalRuns(elements)
    /\ LibraryCall

\* ... with the elements of a text without escape sequences, in any number
\* of runs, runs of no text among them
InitPlain ==
    /\ term = Term_new
    /\ elements \in DocumentsUpTo(PlainKinds, TextsUpTo(MaxChars))
    /\ LibraryCall

\* ... with elements with and without a background
InitRows ==
    /\ term = Term_new
    /\ elements \in DocumentsUpTo(RowKinds, RowTexts)
    /\ LibraryCall

\* ... with elements that take their colors from the style or from INVERT
InitClasses ==
    /\ term \in {Term_new, Term_custom}
    /\ elements \in DocumentsUpTo(ClassKinds, ClassTexts)
    /\ LibraryCall

\* ... with one element per effect
InitEffects ==
    /\ term = Term_new
    /\ elements \in DocumentsUpTo(EffectKinds, EffectTexts)
    /\ LibraryCall

\* ... with elements of every combination of colors, with and without INVERT
InitInvert ==
    /\ term \in {Term_new, Term_custom}
    /\ elements \in DocumentsUpTo(InvertKinds, ColorTexts)
    /\ LibraryCall

\* ... with elements sharing colors across roles and across elements
InitColors ==
    /\ term = Term_custom
    /\ elements \in DocumentsUpTo(ColorKinds, ColorTexts)
    /\ LibraryCall

\* to_html started on an input path and an output path
InitCli ==
    /\ term = Term_new
    /\ elements = <<>>
    /\ effects_in_use = {}
    /\ styled_lines = <<>>
    /\ head = <<>>
    /\ body = <<>>
    /\ pc = "idle"
    /\ cli = "start"
    /\ input_file \in {<<FALSE, <<>>>>} \cup {<<TRUE, t>> : t \in TextsUpTo(MaxChars)}
    /\ vte = <<>>
    /\ output_file \in {[state |-> "absent", written |-> 0],
                        [state |-> "old", written |-> 0]}
    /\ exit_code = 0

\* ------------------------------------------------------------------------
\* render_html
\* ------------------------------------------------------------------------
Extract ==
    /\ cli = "render"
    /\ pc = "idle"
    /\ elements' = extract_next(vte)
    /\ effects_in_use' = {}
    /\ pc' = "extracted"
    /\ UNCHANGED <<term, styled_lines, head, body>>
    /\ UNCHANGED cli_vars

Normalize ==
    /\ pc = "extracted"
    /\ elements' = NormalizeAll(elements, term)
    /\ effects_in_use' = EffectsUnion(NormalizeAll(elements, term))
    /\ pc' = "normalized"
    /\ UNCHANGED <<term, styled_lines, head, body>>
    /\ UNCHANGED cli_vars

SplitLines ==
    /\ pc = "normalized"
    /\ styled_lines' = split_lines(elements)
    /\ pc' = "split"
    /\ UNCHANGED <<term, elements, effects_in_use, head, body>>
    /\ UNCHANGED cli_vars

WriteHead ==
    /\ pc = "split"
    /\ head' = StyleBlock(term, elements, effects_in_use)
    /\ pc' = "head"
    /\ UNCHANGED <<term, elements, effects_in_use, styled_lines, body>>
    /\ UNCHANGED cli_vars

WriteBody ==
    /\ pc = "head"
    /\ body' = RenderLines(styled_lines, 1)
    /\ pc' = "done"
    /\ UNCHANGED <<term, elements, effects_in_use, styled_lines, head>>
    /\ UNCHANGED cli_vars

\* ------------------------------------------------------------------------
\* to_html: main
\* ------------------------------------------------------------------------
DocumentLen == Len(head) + Len(body)

\* std::fs::read_to_string(&input).unwrap()
ReadInput ==
    /\ cli = "start"
    /\ input_file[1]
    /\ vte' = input_file[2]
    /\ cli' = "render"
    /\ UNCHANGED <<input_file, output_file, exit_code>>
    /\ UNCHANGED render_vars

ReadFail ==
    /\ cli = "start"
    /\ ~input_file[1]
    /\ cli' = "panicked"
    /\ exit_code' = 101
    /\ UNCHANGED <<input_file, vte, output_file>>
    /\ UNCHANGED render_vars

\* std::fs::write(&output, html): File::create, which truncates ...
CreateOutput ==
    /\ cli = "render"
    /\ pc = "done"
    /\ output_file' = [state |-> "new", written |-> 0]
    /\ cli' = "write"
    /\ UNCHANGED <<input_file, vte, exit_code>>
    /\ UNCHANGED render_vars

CreateFail ==
    /\ cli = "render"
    /\ pc = "done"
    /\ cli' = "panicked"
    /\ exit_code' = 101
    /\ UNCHANGED <<input_file, vte, output_file>>
    /\ UNCHANGED render_vars

\* ... then write_all: each write(2) takes some of what is left
WriteChunk ==
    /\ cli = "write"
    /\ output_file.written < DocumentLen
    /\ \E k \in 1..(DocumentLen - output_file.written) :
          output_file' = [output_file EXCEPT !.written = @ + k]
    /\ UNCHANGED <<cli, input_file, vte, exit_code>>
    /\ UNCHANGED render_vars

\* a write(2) fails (disk full, I/O error); the Err is unwrapped
WriteFail ==
    /\ cli = "write"
    /\ output_file.written < DocumentLen
    /\ cli' = "panicked"
    /\ exit_code' = 101
    /\ UNCHANGED <<input_file, vte, output_file>>
    /\ UNCHANGED render_vars

Exit ==
    /\ cli = "write"
    /\ output_file.written = DocumentLen
    /\ cli' = "exited"
    /\ UNCHANGED <<input_file, vte, output_file, exit_code>>
    /\ UNCHANGED render_vars

\* ------------------------------------------------------------------------
\* Specifications
\* ------------------------------------------------------------------------
Next == Normalize \/ SplitLines \/ WriteHead \/ WriteBody

NextCli ==
    \/ ReadInput \/ ReadFail
    \/ Extract \/ Normalize \/ SplitLines \/ WriteHead \/ WriteBody
    \/ CreateOutput \/ CreateFail \/ WriteChunk \/ WriteFail \/ Exit

Spec == Init /\ [][Next]_vars
SpecPlain == InitPlain /\ [][Next]_vars
SpecRows == InitRows /\ [][Next]_vars
SpecClasses == InitClasses /\ [][Next]_vars
SpecEffects == InitEffects /\ [][Next]_vars
SpecInvert == InitInvert /\ [][Next]_vars
SpecColors == InitColors /\ [][Next]_vars
SpecCli == InitCli /\ [][NextCli]_vars

TypeOK ==
    /\ pc \in {"idle", "extracted", "normalized", "split", "head", "done"}
    /\ cli \in {"lib", "start", "render", "write", "exited", "panicked"}
    /\ effects_in_use \subseteq Effects
    /\ exit_code \in {0, 101}

\* ------------------------------------------------------------------------
\* What the document is compared with: the text of the input and its lines
\* ------------------------------------------------------------------------
RECURSIVE TextOf(_)
TextOf(els) == IF els = <<>> THEN <<>> ELSE Head(els).text \o TextOf(Tail(els))

SourceText == TextOf(elements)

CountLF(s) == Cardinality({i \in DOMAIN s : s[i] = LF})

\* lines of a text: one per '\n', and one more for what follows the last
\* '\n' when something does
LineCount(s) ==
    CountLF(s) + (IF s # <<>> /\ s[Len(s)] # LF THEN 1 ELSE 0)

\* the n-th stretch of s between '\n's, without the '\r' that stands
\* right before the '\n' ending it
RECURSIVE SourceLine(_, _)
SourceLine(s, n) ==
    LET i == CHOOSE k \in 1..(Len(s) + 1) :
                 /\ k = Len(s) + 1 \/ s[k] = LF
                 /\ \A j \in 1..(k - 1) : s[j] # LF
    IN  IF n = 1
        THEN IF i <= Len(s) /\ i > 1 /\ s[i - 1] = CR
             THEN SubSeq(s, 1, i - 2) ELSE SubSeq(s, 1, i - 1)
        ELSE SourceLine(SubSeq(s, i + 1, Len(s)), n - 1)

NonEmpty(line) == SelectSeq(line, LAMBDA e : e.text # <<>>)
IsOverlay(row) == row.overlay
IsForeground(row) == ~row.overlay
ForegroundRows == SelectSeq(body, IsForeground)
OverlayRows == SelectSeq(body, IsOverlay)
RECURSIVE SpanText(_)
SpanText(spans) ==
    IF spans = <<>> THEN <<>> ELSE Head(spans).text \o SpanText(Tail(spans))
Rendered == pc = "done"
HasSplit == pc \in {"split", "head", "done"}

\* C1: the document has as many foreground rows as its text has lines; a
\* text ending in '\n' gets no row after its last line.
C1_LineCount == Rendered => Len(ForegroundRows) = LineCount(SourceText)

\* C3: in every overlay row the span of each element with text holds as
\* many fill characters as the element's text is columns wide, so the row
\* is as wide as the line.
C3_OverlayAlignment ==
    Rendered =>
        \A r \in DOMAIN body :
            body[r].overlay =>
                LET line == NonEmpty(styled_lines[body[r].line]) IN
                /\ Len(body[r].spans) = Len(line)
                /\ \A k \in DOMAIN line :
                      Len(body[r].spans[k].text) = width(line[k].text)
                /\ Len(SpanText(body[r].spans)) = width(TextOf(line))

\* C5: no element of a Line holds a '\n', and the texts of a Line's
\* elements joined are the Line's source line without its terminator
\* ('\n' and the '\r' right before it), wherever the elements' borders are.
C5_LineSplitter ==
    HasSplit =>
        \A n \in DOMAIN styled_lines :
            /\ \A k \in DOMAIN styled_lines[n] :
                  CountLF(styled_lines[n][k].text) = 0
            /\ TextOf(styled_lines[n]) = SourceLine(SourceText, n)

\* ------------------------------------------------------------------------
\* Effects and colors of the document
\* ------------------------------------------------------------------------
EffectClass(e) ==
    LET k == CHOOSE j \in DOMAIN HeadEffects : HeadEffects[j][1] = e
    IN  HeadEffects[k][2]
EffectClassNames == {HeadEffects[j][2] : j \in DOMAIN HeadEffects}

HasEffectRule(e) ==
    \E j \in DOMAIN head :
        head[j].decl = "effect" /\ head[j].class = EffectClass(e)

SpanCarries(class) ==
    \E r \in DOMAIN body : \E k \in DOMAIN body[r].spans :
        \E c \in DOMAIN body[r].spans[k].classes :
            body[r].spans[k].classes[c] = class

\* C2: the rule of each of the ten rendered effects is in the <head> if and
\* only if a span of the body carries the effect's class.
C2_DeadCssElimination ==
    Rendered =>
        \A e \in RenderedEffects : HasEffectRule(e) <=> SpanCarries(EffectClass(e))

\* C7: when to_html aborts, its status is not zero and the output file
\* holds no part of the document.
C7_NoPartialOutput ==
    cli = "panicked" =>
        /\ exit_code # 0
        /\ ~(/\ output_file.state = "new"
             /\ output_file.written > 0
             /\ output_file.written < DocumentLen)

\* C4: the normalization gives every element with INVERT the old
\* background (else the default background) as foreground, the old
\* foreground (else the default foreground) as background, and clears
\* INVERT; underline color, other effects, text and hyperlink stay, and an
\* element without INVERT stays as it is.  No element has INVERT afterwards.
InvertResolved(old, new, t) ==
    IF "INVERT" \in old.effects
    THEN /\ new.fg = (IF IsSome(old.bg) THEN old.bg ELSE t.bg_color)
         /\ new.bg = (IF IsSome(old.fg) THEN old.fg ELSE t.fg_color)
         /\ new.effects = old.effects \ {"INVERT"}
         /\ new.underline = old.underline
    ELSE new = old
NoInvertLeft ==
    pc \in {"normalized", "split", "head", "done"} =>
        /\ \A i \in DOMAIN elements : "INVERT" \notin elements[i].style.effects
        /\ "INVERT" \notin effects_in_use
        /\ \A n \in DOMAIN styled_lines : \A k \in DOMAIN styled_lines[n] :
              "INVERT" \notin styled_lines[n][k].style.effects
NormalizeStep ==
    pc = "extracted" /\ pc' = "normalized" =>
        /\ Len(elements') = Len(elements)
        /\ \A i \in DOMAIN elements :
              /\ InvertResolved(elements[i].style, elements'[i].style, term)
              /\ elements'[i].text = elements[i].text
              /\ elements'[i].url = elements[i].url
C4_InvertNormalization == [](NoInvertLeft) /\ [][NormalizeStep]_vars
C4_Witness ==
    /\ pc = "normalized"
    /\ \E i \in DOMAIN elements :
          /\ elements[i].style.fg = term.bg_color
          /\ elements[i].style.bg = term.fg_color
    /\ \E i \in DOMAIN elements :
          /\ elements[i].style.fg = Ansi256(1)
          /\ elements[i].style.bg = Ansi(1)
          /\ "BOLD" \in elements[i].style.effects

\* C6: the color rules of the <head> are one per (role, color) that an
\* element refers to after the normalization, each named after its role,
\* no class twice, in ascending order of the class names.
ColorDecls == {"color", "background", "text-decoration-color"}
RegistryRules ==
    SelectSeq(head, LAMBDA r : r.decl \in ColorDecls
                               /\ r.class \notin {FG_PREFIX, BG_PREFIX})
Referenced ==
    {<<"color", FG_PREFIX, elements[i].style.fg>> : i \in DOMAIN elements}
    \cup {<<"background", BG_PREFIX, elements[i].style.bg>> :
             i \in DOMAIN elements}
    \cup {<<"text-decoration-color", UNDERLINE_PREFIX,
            elements[i].style.underline>> : i \in DOMAIN elements}
References == {ref \in Referenced : IsSome(ref[3])}
C6_ColorRegistry ==
    pc \in {"head", "done"} =>
        /\ Len(RegistryRules) = Cardinality(References)
        /\ \A ref \in References :
              \E k \in DOMAIN RegistryRules :
                  /\ RegistryRules[k].decl = ref[1]
                  /\ StartsWith(RegistryRules[k].class, ref[2] \o <<"-">>)
                  /\ RegistryRules[k].rgb = rgb_value(ref[3])
        /\ \A j, k \in DOMAIN RegistryRules :
              j < k => StrLess(RegistryRules[j].class, RegistryRules[k].class)
C6_Witness ==
    /\ pc = "head"
    /\ Len(elements) = 2
    /\ IsSome(elements[1].style.fg)
    /\ IsSome(elements[1].style.bg)
    /\ elements[1].style.bg = elements[2].style.bg
    /\ elements[1].style.underline # elements[2].style.underline
    /\ Len(RegistryRules) >= 3

\* C8: a text without escape sequences is rendered without overlay rows,
\* classes, anchors, color rules (but .fg and .bg) and effect rules; each
\* row holds the escaped text of its line and ends with a line break.
AllPlain ==
    \A i \in DOMAIN elements :
        elements[i].style = DefaultStyle /\ elements[i].url = NoUrl
C8_PlainText ==
    Rendered /\ AllPlain =>
        /\ OverlayRows = <<>>
        /\ Len(body) = Len(styled_lines)
        /\ \A r \in DOMAIN body :
              /\ body[r].line = r
              /\ body[r].br
              /\ \A k \in DOMAIN body[r].spans :
                    /\ body[r].spans[k].classes = <<>>
                    /\ body[r].spans[k].href = NoUrl
              /\ SpanText(body[r].spans) = encode_text(TextOf(styled_lines[r]))
              /\ Len(elements) = 1 =>
                    TextOf(styled_lines[r]) = SourceLine(SourceText, r)
        /\ RegistryRules = <<>>
        /\ \A j \in DOMAIN head : head[j].decl \notin {"effect"}
        /\ \A j \in DOMAIN head :
              head[j].decl \in ColorDecls =>
                  /\ j <= 2
                  /\ head[j].class = (IF j = 1 THEN FG_PREFIX ELSE BG_PREFIX)
C8_Witness ==
    /\ Rendered
    /\ AllPlain
    /\ Len(body) >= 2
    /\ \E k \in DOMAIN body[1].spans :
          body[1].spans[k].text = <<"&", "l", "t", ";">>
    /\ body[2].spans # <<>>

\* C9: a Line gets an overlay row if and only if one of its elements, with
\* or without text, has a background; it gets one foreground row, right
\* after its overlay row; each row has one span per element with text, in
\* the elements' order.
HasBackground(line) == \E i \in DOMAIN line : IsSome(line[i].style.bg)
C9_RowStructure ==
    Rendered =>
        /\ Len(ForegroundRows) = Len(styled_lines)
        /\ \A n \in DOMAIN ForegroundRows : ForegroundRows[n].line = n
        /\ \A r \in DOMAIN body :
              LET line == styled_lines[body[r].line]
                  shown == NonEmpty(line)
              IN
              /\ Len(body[r].spans) = Len(shown)
              /\ body[r].overlay =>
                    /\ r < Len(body)
                    /\ ~body[r + 1].overlay
                    /\ body[r + 1].line = body[r].line
                    /\ \A k \in DOMAIN shown :
                          IsSome(shown[k].style.bg)
                              <=> body[r].spans[k].classes # <<>>
              /\ ~body[r].overlay =>
                    /\ HasBackground(line)
                          <=> (r > 1 /\ body[r - 1].overlay
                                     /\ body[r - 1].line = body[r].line)
                    /\ \A k \in DOMAIN shown :
                          body[r].spans[k].text = encode_text(shown[k].text)
C9_Witness ==
    /\ Rendered
    /\ Len(body) = 3
    /\ body[1].overlay
    /\ Len(styled_lines[1]) = 2
    /\ Len(body[1].spans) = 1
    /\ body[1].spans[1].classes = <<>>
    /\ ~body[2].overlay
    /\ Len(body[2].spans) = 1
    /\ ~body[3].overlay

\* C10: every color class on a span of the body has a rule in the <head>,
\* also for colors that come from resolving INVERT and for the pieces of
\* an element that was split over several lines.
C10_ClassesDefined ==
    Rendered =>
        \A r \in DOMAIN body : \A k \in DOMAIN body[r].spans :
            \A c \in DOMAIN body[r].spans[k].classes :
                LET class == body[r].spans[k].classes[c] IN
                class \notin EffectClassNames =>
                    \E j \in DOMAIN head :
                        /\ head[j].class = class
                        /\ head[j].decl \in ColorDecls
C10_Witness ==
    /\ Rendered
    /\ term = Term_custom
    /\ \E r \in DOMAIN body :
          /\ body[r].overlay
          /\ body[r].line = 2
          /\ \E k \in DOMAIN body[r].spans :
                body[r].spans[k].classes
                    = <<color_name(BG_PREFIX, term.fg_color)>>
    /\ \E r \in DOMAIN body :
          /\ body[r].overlay
          /\ body[r].line = 1
          /\ \E k \in DOMAIN body[r].spans :
                body[r].spans[k].classes = <<color_name(BG_PREFIX, Ansi256(1))>>

====
